---- MODULE Spec2Model ----
(***************************************************************************)
(* rusty_ytdl, src/utils.rs: the balanced-region scanner (cut_after_js),   *)
(* the boundary scanner (between), the player-script function extractor    *)
(* (extract_functions), the per-format URL resolution (set_download_url,   *)
(* parse_video_formats) and the format selector (filter_formats,           *)
(* choose_format, sort_formats).                                           *)
(*                                                                         *)
(* Text is a sequence of one-character strings.  In player scripts a fixed *)
(* phrase of the source (an anchor such as `=function(a)`) is one symbol   *)
(* of the sequence; the phrases used hold no bracket and only balanced     *)
(* quotes, so the scanner treats each as an ordinary character.            *)
(***************************************************************************)
EXTENDS Integers, Sequences, FiniteSets, TLC

VARIABLES
    overflow_checks,    \* the build: TRUE = integer overflow panics (dev/test profile), FALSE = it wraps (release)
    mixed_json,         \* cut_after_js: the input text
    i,                  \* cut_after_js: loop index (0-based, as in the source)
    is_escaped,         \* cut_after_js: the current character is escaped
    is_escaped_object,  \* cut_after_js: the open literal's delimiter, or NoLiteral
    counter,            \* cut_after_js: open brackets to be closed
    return_string,      \* cut_after_js: Option<String>
    cut_pc,             \* cut_after_js: "idle" | "scan" | "returned" | "panic"
    response,           \* get_functions: the downloaded player script
    format_functions,   \* the vector extract_functions returned, as handed to parse_video_formats
    info,               \* parse_video_formats: the formats of its input, formats then adaptiveFormats
    formats,            \* parse_video_formats: the vector being normalized in place
    fmt_i,              \* parse_video_formats: loop index (0-based)
    pass,               \* how many times the normalizer has been started on these formats
    first_pass,         \* what the first run returned
    pipe_pc,            \* "start" | "extracted" | "normalize" | "parsed" | "extract_panic" | "parse_panic"
    options,            \* choose_format / filter_formats: [filter, quality]
    sel_formats,        \* choose_format / filter_formats: the formats argument
    candidates,         \* choose_format: return_formats before the sort (line 270)
    return_formats,     \* choose_format: return_formats after the sort; filter_formats: its result
    chosen,             \* choose_format: Option of the format returned
    sel_pc,             \* "idle" | "filtered" | "chosen" | "panic"
    url_format,         \* set_download_url: the format argument
    url_functions,      \* set_download_url: the functions argument
    url_text,           \* set_download_url: the text resolved so far (url, then the "url" entry)
    url_calls,          \* set_download_url: the calls of decipher and ncode made, in order
    url_pc,             \* "idle" | "decipher" | "ncode" | "parse" | "returned" | "panic"
    btw_haystack,       \* between: the haystack argument
    btw_left,           \* between: the left argument
    btw_right,          \* between: the right argument
    btw_return,         \* between: the text returned
    btw_pc,             \* "idle" | "called" | "returned"
    rank_form,          \* sort_formats: the format handed to the quality-label closure
    rank_key,           \* sort_formats: the key the closure returned
    rank_pc             \* "idle" | "called" | "returned"

cutVars == <<mixed_json, i, is_escaped, is_escaped_object, counter, return_string, cut_pc>>

pipeVars == <<response, format_functions, info, formats, fmt_i, pass, first_pass, pipe_pc>>

selVars == <<options, sel_formats, candidates, return_formats, chosen, sel_pc>>

urlVars == <<url_format, url_functions, url_text, url_calls, url_pc>>

pureVars == <<btw_haystack, btw_left, btw_right, btw_return, btw_pc, rank_form, rank_key, rank_pc>>

vars == <<overflow_checks, cutVars, pipeVars, selVars, urlVars, pureVars>>

(***************************************************************************)
(* Bounds                                                                  *)
(***************************************************************************)
MaxCutLen == 5
MaxFormats == 2
MaxSelFormats == 3
MaxHayLen == 5
MaxLabelLen == 4

(***************************************************************************)
(* Option values                                                           *)
(***************************************************************************)
None == [some |-> FALSE, val |-> <<>>]
Some(v) == [some |-> TRUE, val |-> v]

(***************************************************************************)
(* Characters                                                              *)
(***************************************************************************)
DQ == "\""
SQ == "'"
\* the backtick (the lexer of TLA+ admits none inside a string)
BT == "bt"
SL == "/"
BS == "\\"
NoLiteral == "none"

\* \s of the startPrefix pattern
IsWhitespace(c) == c \in {" ", "\n", "\t"}

\* [\[{:;,] of the startPrefix pattern
IsPrefixPunct(c) == c \in {"[", "{", ":", ";", ","}

(***************************************************************************)
(* StringUtils (crate root, not in src/): substring and slice              *)
(***************************************************************************)
\* the characters at 0-based positions start .. end-1 that exist in s
Substring(s, start, end) ==
    LET lo == IF start < Len(s) THEN start ELSE Len(s)
        hi == IF end < Len(s) THEN end ELSE Len(s)
    IN  IF lo >= hi THEN <<>> ELSE SubSeq(s, lo + 1, hi)

\* s[pos..]
Slice(s, pos) == Substring(s, pos, Len(s))

(***************************************************************************)
(* cut_after_js                                                            *)
(***************************************************************************)
\* usize arithmetic wraps modulo 2^64; the model checker's integers are 32-bit,
\* so the modulus is scaled to 2^30: a wrapped index lies beyond every text either way
UsizeModulus == 1073741824

LookBack == 10

\* Regex (^|[\[{:;,])\s?$ on the look-back text w
StartPrefixMatches(w) ==
    LET n == Len(w)
    IN  \/ n = 0
        \/ n = 1 /\ IsWhitespace(w[1])
        \/ n >= 1 /\ IsPrefixPunct(w[n])
        \/ n >= 2 /\ IsWhitespace(w[n]) /\ IsPrefixPunct(w[n - 1])

\* the first entry of escaping_sequenzes whose start is c
IsLiteralStart(c) == c \in {DQ, SQ, BT, SL}

\* open / close from the first character
OpenOf(text) ==
    IF Len(text) > 0 /\ text[1] = "[" THEN "["
    ELSE IF Len(text) > 0 /\ text[1] = "{" THEN "{"
    ELSE ""

CloseOf(open) == IF open = "[" THEN "]" ELSE IF open = "{" THEN "}" ELSE ""

\* an entry that starts the loop whatever the first character is
CutEntryAlwaysScans(text) ==
    [i |-> 0, is_escaped |-> FALSE, obj |-> NoLiteral, counter |-> 0,
     ret |-> None, pc |-> "scan"]

\* the state of the loop before its first iteration
CutEntry(text) ==
    IF OpenOf(text) = ""
    THEN [i |-> 0, is_escaped |-> FALSE, obj |-> NoLiteral, counter |-> 0,
          ret |-> None, pc |-> "returned"]
    ELSE [i |-> 0, is_escaped |-> FALSE, obj |-> NoLiteral, counter |-> 0,
          ret |-> None, pc |-> "scan"]

\* `i - 10` in usize: the subtraction panics under overflow checks, else wraps
LookBackStart(idx) == (idx - LookBack) % UsizeModulus

LookBackPanics(idx, checks) == checks /\ idx < LookBack

\* whether the character at idx opens a literal (the inner for over escaping_sequenzes)
OpensLiteral(text, idx) ==
    LET c == text[idx + 1]
    IN  /\ IsLiteralStart(c)
        /\ \/ c # SL
           \/ StartPrefixMatches(Substring(text, LookBackStart(idx), idx))

\* the counting tail of an iteration (lines 1348-1364)
CutCount(text, st, checks) ==
    LET c == text[st.i + 1]
        esc == (c = BS) /\ ~st.is_escaped
        open == OpenOf(text)
        cnt == IF c = open THEN st.counter + 1
               ELSE IF c = CloseOf(open) THEN st.counter - 1
               ELSE st.counter
    IN  IF st.obj # NoLiteral
        THEN [st EXCEPT !.i = st.i + 1, !.is_escaped = esc]
        ELSE IF cnt = 0
        THEN [st EXCEPT !.is_escaped = esc, !.counter = cnt,
                        !.ret = Some(Substring(text, 0, st.i + 1)), !.pc = "returned"]
        ELSE [st EXCEPT !.i = st.i + 1, !.is_escaped = esc, !.counter = cnt]

\* an iteration whose literal-end test does not consult is_escaped
CutIterIgnoringEscape(text, st, checks) ==
    IF st.i >= Len(text)
    THEN [st EXCEPT !.pc = "returned"]
    ELSE LET c == text[st.i + 1]
         IN  IF st.obj # NoLiteral /\ c = st.obj
             THEN [st EXCEPT !.i = st.i + 1, !.obj = NoLiteral]
             ELSE IF ~st.is_escaped /\ st.obj = NoLiteral /\ c = SL /\ LookBackPanics(st.i, checks)
             THEN [st EXCEPT !.pc = "panic"]
             ELSE IF ~st.is_escaped /\ st.obj = NoLiteral /\ OpensLiteral(text, st.i)
             THEN [st EXCEPT !.i = st.i + 1, !.obj = c]
             ELSE CutCount(text, st, checks)

\* one iteration of the for loop at st.i, or the loop's exit when st.i = len
CutIter(text, st, checks) ==
    IF st.i >= Len(text)
    THEN [st EXCEPT !.pc = "returned"]
    ELSE LET c == text[st.i + 1]
         IN  IF ~st.is_escaped /\ st.obj # NoLiteral /\ c = st.obj
             THEN [st EXCEPT !.i = st.i + 1, !.obj = NoLiteral]
             ELSE IF ~st.is_escaped /\ st.obj = NoLiteral /\ c = SL /\ LookBackPanics(st.i, checks)
             THEN [st EXCEPT !.pc = "panic"]
             ELSE IF ~st.is_escaped /\ st.obj = NoLiteral /\ OpensLiteral(text, st.i)
             THEN [st EXCEPT !.i = st.i + 1, !.obj = c]
             ELSE CutCount(text, st, checks)

RECURSIVE CutLoop(_, _, _)
CutLoop(text, st, checks) ==
    IF st.pc # "scan" THEN st ELSE CutLoop(text, CutIter(text, st, checks), checks)

\* cut_after_js(text): [pc |-> "returned" | "panic", ret |-> Option<String>]
CutAfterJs(text, checks) == CutLoop(text, CutEntry(text), checks)

(***************************************************************************)
(* between                                                                 *)
(***************************************************************************)
\* the characters that take two bytes in UTF-8; every other character of the
\* model's texts takes one
EAcute == "e_acute"

WideChars == {EAcute}

\* str::len: the length in bytes
ByteLen(s) == Len(s) + Cardinality({k \in 1..Len(s) : s[k] \in WideChars})

\* the number of characters before the first occurrence of needle, or -1
IndexOf(hay, needle) ==
    LET hits == {k \in 0..(Len(hay) - Len(needle)) :
                    SubSeq(hay, k + 1, k + Len(needle)) = needle}
    IN  IF hits = {} THEN -1 ELSE CHOOSE k \in hits : \A m \in hits : k <= m

\* str::find: the byte index of the first occurrence of needle, or -1
Find(hay, needle) ==
    LET hits == {k \in 0..(Len(hay) - Len(needle)) :
                    SubSeq(hay, k + 1, k + Len(needle)) = needle}
    IN  IF hits = {} THEN -1
        ELSE LET k == CHOOSE k \in hits : \A m \in hits : k <= m
             IN  k + Cardinality({j \in 1..k : hay[j] \in WideChars})

Contains(hay, needle) == IndexOf(hay, needle) >= 0

Between(haystack, left, right) ==
    LET left_index == Find(haystack, left)
    IN  IF left_index < 0 THEN <<>>
        ELSE LET pos == left_index + ByteLen(left)
                 return_str == Slice(haystack, pos)
                 right_index == Find(return_str, right)
             IN  IF right_index < 0 THEN <<>>
                 ELSE Substring(return_str, 0, right_index)

(***************************************************************************)
(* extract_functions                                                       *)
(***************************************************************************)
\* the phrases of the player script the extractor searches for, one symbol each
AlrAnchor == "a.set(\"alr\",\"yes\");c&&(c="
DecodeAnchor == "(decodeURIC"
FunctionA == "=function(a)"
GetNAnchor == "&&(b=a.get(\"n\"))&&(b="
CallB == "(b)"
SplitIdiom == "a=a.split(\"\");"
VarKw == "var "
NullKw == "null"

\* String::retain(|c| c != '\n')
RetainNoNewline(s) == SelectSeq(s, LAMBDA c : c # "\n")

\* the text before the first "[" (split("[") ... get(0))
BeforeBracket(name) ==
    LET k == IndexOf(name, <<"[">>) IN IF k < 0 THEN name ELSE Substring(name, 0, k)

\* cut_after_js(sub_body).unwrap_or(dflt), or the panic of cut_after_js
CutOr(sub_body, dflt, checks) ==
    LET r == CutAfterJs(sub_body, checks)
    IN  IF r.pc = "panic" THEN [pc |-> "panic", text |-> <<>>]
        ELSE [pc |-> "ok", text |-> IF r.ret.some THEN r.ret.val ELSE dflt]

\* the body substituted when cut_after_js finds no balanced region
DefaultBody == <<"{", "}">>

extract_manipulations(body, caller, checks) ==
    LET function_name == Between(caller, <<SplitIdiom>>, <<".">>)
        function_start == <<VarKw>> \o function_name \o <<"=", "{">>
        ndx == Find(body, function_start)
    IN  IF Len(function_name) <= 0 THEN [pc |-> "ok", text |-> <<>>]
        ELSE IF ndx < 0 THEN [pc |-> "ok", text |-> <<>>]
        ELSE LET sub_body == Slice(body, ndx + ByteLen(function_start) - 1)
                 cut == CutOr(sub_body, <<NullKw>>, checks)
             IN  IF cut.pc = "panic" THEN cut
                 ELSE [pc |-> "ok", text |-> <<VarKw>> \o function_name \o <<"=">> \o cut.text]

\* the name the decipher idiom yields
DecipherName(body) == Between(body, <<AlrAnchor>>, <<DecodeAnchor>>)

\* extract_decipher: [pc, functions] with the snippet pushed, if any
extract_decipher(body, functions, checks) ==
    LET function_name == DecipherName(body)
        function_start == function_name \o <<FunctionA>>
        ndx == Find(body, function_start)
    IN  IF ~(Len(function_name) > 0) THEN [pc |-> "ok", functions |-> functions]
        ELSE IF ndx < 0 THEN [pc |-> "ok", functions |-> functions]
        ELSE LET sub_body == Slice(body, ndx + ByteLen(function_start))
                 cut == CutOr(sub_body, DefaultBody, checks)
                 function_body == <<VarKw>> \o function_start \o cut.text
                 manip == extract_manipulations(body, function_body, checks)
             IN  IF cut.pc = "panic" \/ manip.pc = "panic"
                 THEN [pc |-> "panic", functions |-> functions]
                 ELSE [pc |-> "ok",
                       functions |-> Append(functions,
                           RetainNoNewline(manip.text \o <<";">> \o function_body \o <<";">>))]

\* the name the n-transform idiom yields, resolved through the array it indexes
NcodeName(body) ==
    LET function_name == Between(body, <<GetNAnchor>>, <<CallB>>)
        left_name == BeforeBracket(function_name) \o <<"=", "[">>
    IN  IF Contains(function_name, <<"[">>)
        THEN Between(body, left_name, <<"]">>)
        ELSE function_name

extract_ncode(body, functions, checks) ==
    LET function_name == NcodeName(body)
        function_start == function_name \o <<FunctionA>>
        ndx == Find(body, function_start)
    IN  IF ~(Len(function_name) > 0) THEN [pc |-> "ok", functions |-> functions]
        ELSE IF ndx < 0 THEN [pc |-> "ok", functions |-> functions]
        ELSE LET sub_body == Slice(body, ndx + ByteLen(function_start))
                 cut == CutOr(sub_body, DefaultBody, checks)
             IN  IF cut.pc = "panic"
                 THEN [pc |-> "panic", functions |-> functions]
                 ELSE [pc |-> "ok",
                       functions |-> Append(functions,
                           RetainNoNewline(<<VarKw>> \o function_start \o cut.text \o <<";">>))]

\* extract_functions(body): extract_decipher, then extract_ncode, on one vector
extract_functions(body, checks) ==
    LET d == extract_decipher(body, <<>>, checks)
    IN  IF d.pc = "panic" THEN d ELSE extract_ncode(body, d.functions, checks)

(***************************************************************************)
(* URL texts                                                               *)
(*                                                                         *)
(* A text handed to the URL routines is held by its structure:             *)
(*   abs    it starts with a scheme and host (`https://host/`),            *)
(*   path   the path segments after the host (or the leading text of a     *)
(*          string that is no URL),                                        *)
(*   pairs  the `k=v` items separated by `&` that follow (after a `?` when *)
(*          a host or path precedes them).                                 *)
(* A cipher token is a text with neither host nor path: `s=..&sp=..&url=..`*)
(* Values are atoms free of `%`, `+`, `&`, `=` and brackets, except the    *)
(* value of a token's `url` item, which names a percent-encoded URL.       *)
(***************************************************************************)
Url(path, pairs) == [abs |-> TRUE, path |-> path, pairs |-> pairs]
Token(pairs) == [abs |-> FALSE, path |-> <<>>, pairs |-> pairs]
EmptyText == [abs |-> FALSE, path |-> <<>>, pairs |-> <<>>]
KV(k, v) == [k |-> k, v |-> v]

HasPrefix(text) == text.abs \/ text.path # <<>>

\* serde_qs splits the whole text at `&` and `=`: a host or path before the
\* first `=` is part of the first key, which then equals no plain key
QsPlainPairs(text) ==
    IF HasPrefix(text) /\ text.pairs # <<>> THEN Tail(text.pairs) ELSE text.pairs

\* serde_qs::from_str into a map fails on a key given twice
QsOk(text) ==
    LET ps == QsPlainPairs(text)
    IN  \A a, b \in 1..Len(ps) : ps[a].k = ps[b].k => a = b

QsHas(text, key) == \E a \in 1..Len(QsPlainPairs(text)) : QsPlainPairs(text)[a].k = key

QsGet(text, key) ==
    LET ps == QsPlainPairs(text)
    IN  ps[CHOOSE a \in 1..Len(ps) : ps[a].k = key].v

\* url::Url::parse succeeds on an absolute URL only
UrlParseOk(text) == text.abs

\* the URLs a token's `url` item can name
UrlPlain == Url(<<"videoplayback">>, <<KV("itag", "18"), KV("n", "N0")>>)
UrlSigned == Url(<<"videoplayback">>, <<KV("itag", "18"), KV("sig", "old"), KV("n", "N0")>>)
UrlNoN == Url(<<"videoplayback">>, <<KV("itag", "18")>>)
UrlNFirst == Url(<<"videoplayback">>, <<KV("n", "N0"), KV("itag", "18")>>)
UrlHlsLive == Url(<<"manifest", "hls_variant", "source", "yt_live_broadcast", "x.m3u8">>, <<>>)
UrlLive == Url(<<"videoplayback">>, <<KV("itag", "18"), KV("source", "yt_live_broadcast")>>)
UrlDash == Url(<<"manifest", "dash", "x">>, <<>>)
UrlTwice == Url(<<"videoplayback">>, <<KV("itag", "18"), KV("x", "1"), KV("x", "2")>>)
NotAUrl == [abs |-> FALSE, path |-> <<"junk">>, pairs |-> <<>>]

\* the text a `url` item's value decodes to
UrlOf(v) ==
    CASE v = "UrlPlain" -> UrlPlain
      [] v = "UrlSigned" -> UrlSigned
      [] v = "UrlNoN" -> UrlNoN
      [] OTHER -> [abs |-> FALSE, path |-> <<v>>, pairs |-> <<>>]

(***************************************************************************)
(* The Script Invoker (js_sandbox): load a snippet, call an entry point    *)
(***************************************************************************)
\* what the platform's functions compute
Unscramble(s) == CASE s = "S0" -> "D0" [] OTHER -> "D1"
NTransform(n) == CASE n = "N0" -> "N1" [] n = "N1" -> "N2" [] OTHER -> "N3"

InvokeOutcomes == {"ok", "load_err", "call_err"}

\* the snippet defines a global function of this name with a body that returns a string
DefinesFunction(script, entry) ==
    /\ Contains(script, <<VarKw>> \o entry \o <<FunctionA>>)
    /\ ~Contains(script, <<VarKw>> \o entry \o <<FunctionA>> \o DefaultBody)

\* Script::from_string(script): Err when the environment fails the load
ScriptLoadOk(script, oc) == oc # "load_err"

\* script.call(entry, arg): Ok(result) | Err
ScriptCall(script, entry, arg, oc) ==
    IF oc = "ok" /\ DefinesFunction(script, entry)
    THEN Some(IF Contains(script, <<"nt">>) THEN NTransform(arg) ELSE Unscramble(arg))
    ELSE None

(***************************************************************************)
(* set_download_url                                                        *)
(***************************************************************************)
DecipherEntry == <<"W", "x", "a">>
NcodeEntry == <<"p", "l", "a">>

decipher_script_string(functions) == IF Len(functions) >= 1 THEN functions[1] ELSE <<>>
n_transform_script_string(functions) == IF Len(functions) >= 2 THEN functions[2] ELSE <<>>

Ok(text) == [pc |-> "ok", text |-> text]
Panic == [pc |-> "panic", text |-> EmptyText]

\* the fallback of decipher: the `url` item, or the input without one
DecipherFallback(url, args) ==
    IF ~QsHas(args, "url") THEN url ELSE UrlOf(QsGet(args, "url"))

\* the pair is pushed without the test of line 506
SetPairsAlwaysPushes(pairs, name, value, append) ==
    LET mapped == [a \in 1..Len(pairs) |->
                      IF pairs[a].k = name THEN KV(name, value) ELSE pairs[a]]
    IN  IF append THEN Append(mapped, KV(name, value)) ELSE mapped

\* every pair of this name gets the value; with append, a pair is added when none has the name
SetPairs(pairs, name, value, append) ==
    LET mapped == [a \in 1..Len(pairs) |->
                      IF pairs[a].k = name THEN KV(name, value) ELSE pairs[a]]
    IN  IF append /\ ~(\E a \in 1..Len(pairs) : pairs[a].k = name)
        THEN Append(mapped, KV(name, value))
        ELSE mapped

decipher(url, script, oc) ==
    IF ~QsOk(url) THEN Panic
    ELSE LET args == url
             result == ScriptCall(script, DecipherEntry,
                                  IF QsHas(args, "s") THEN QsGet(args, "s") ELSE "", oc)
             return_url == IF QsHas(args, "url") THEN UrlOf(QsGet(args, "url")) ELSE EmptyText
             query_name == IF QsHas(args, "sp") THEN QsGet(args, "sp") ELSE "signature"
         IN  IF ~QsHas(args, "s") \/ script = <<>> THEN Ok(DecipherFallback(url, args))
             ELSE IF ~ScriptLoadOk(script, oc) THEN Ok(DecipherFallback(url, args))
             ELSE IF ~result.some THEN Ok(DecipherFallback(url, args))
             ELSE IF ~UrlParseOk(return_url) THEN Ok(DecipherFallback(url, args))
             ELSE Ok([return_url EXCEPT
                        !.pairs = SetPairs(return_url.pairs, query_name, result.val, TRUE)])

ncode(url, script, oc) ==
    IF ~QsOk(url) THEN Panic
    ELSE LET components == url
             result == ScriptCall(script, NcodeEntry,
                                  IF QsHas(components, "n") THEN QsGet(components, "n") ELSE "", oc)
         IN  IF ~QsHas(components, "n") \/ script = <<>> THEN Ok(url)
             ELSE IF ~ScriptLoadOk(script, oc) THEN Ok(url)
             ELSE IF ~result.some THEN Ok(url)
             ELSE IF ~UrlParseOk(url) THEN Ok(url)
             ELSE Ok([url EXCEPT !.pairs = SetPairs(url.pairs, "n", result.val, FALSE)])

\* JSON objects are functions from their keys
HasKey(obj, k) == k \in DOMAIN obj
Insert(obj, k, v) == [x \in DOMAIN obj \cup {k} |-> IF x = k THEN v ELSE obj[x]]
Remove(obj, k) == [x \in DOMAIN obj \ {k} |-> obj[x]]

\* the text set_download_url starts from: url, else signatureCipher, else cipher, else ""
SourceText(format) ==
    IF HasKey(format, "url") THEN format["url"]
    ELSE IF HasKey(format, "signatureCipher") THEN format["signatureCipher"]
    ELSE IF HasKey(format, "cipher") THEN format["cipher"]
    ELSE EmptyText

\* ciphered taken as: a token is present
IsCipheredByToken(format) == HasKey(format, "signatureCipher") \/ HasKey(format, "cipher")

IsCiphered(format) == ~HasKey(format, "url")

\* set_download_url(format, functions): Ok(the URL it returns) or the panic of an unwrap
set_download_url(format, functions, ocd, ocn) ==
    LET url == SourceText(format)
        d == IF IsCiphered(format)
             THEN decipher(url, decipher_script_string(functions), ocd)
             ELSE Ok(url)
        n == IF d.pc = "panic" THEN Panic
             ELSE ncode(d.text, n_transform_script_string(functions), ocn)
    IN  IF n.pc = "panic" THEN Panic
        ELSE IF ~UrlParseOk(n.text) THEN Panic
        ELSE Ok(n.text)

(***************************************************************************)
(* parse_video_formats                                                     *)
(***************************************************************************)
\* str::split(sep): the pieces between the occurrences of sep
RECURSIVE Split(_, _)
Split(s, sep) ==
    LET k == IndexOf(s, sep)
    IN  IF k < 0 THEN <<s>>
        ELSE <<Substring(s, 0, k)>> \o Split(Slice(s, k + Len(sep)), sep)

CodecsOpen == "codecs=\""

\* \bsource[/=]yt_live_broadcast\b
IsLiveUrl(text) ==
    \/ \E a \in 1..(Len(text.path) - 1) :
          text.path[a] = "source" /\ text.path[a + 1] = "yt_live_broadcast"
    \/ \E a \in 1..Len(text.pairs) :
          text.pairs[a].k = "source" /\ text.pairs[a].v = "yt_live_broadcast"

\* /manifest/hls_(variant|playlist)/
IsHlsUrl(text) ==
    \E a \in 1..(Len(text.path) - 2) :
        text.path[a] = "manifest" /\ text.path[a + 1] \in {"hls_variant", "hls_playlist"}

\* /manifest/dash/
IsDashUrl(text) ==
    \E a \in 1..(Len(text.path) - 2) :
        text.path[a] = "manifest" /\ text.path[a + 1] = "dash"

\* hasAudio derived from audioBitrate alone
AddCapabilitiesByBitrate(x) ==
    LET v == IF HasKey(x, "qualityLabel") THEN Insert(x, "hasVideo", TRUE) ELSE x
    IN  IF HasKey(v, "audioBitrate") THEN Insert(v, "hasAudio", TRUE) ELSE v

\* lines 117-124
AddCapabilities(x) ==
    LET v == IF HasKey(x, "qualityLabel") THEN Insert(x, "hasVideo", TRUE) ELSE x
    IN  IF HasKey(v, "audioBitrate") \/ HasKey(v, "audioQuality")
        THEN Insert(v, "hasAudio", TRUE)
        ELSE v

\* lines 126-153
AddMime(x) ==
    IF ~HasKey(x, "mimeType") THEN x
    ELSE LET mime == x["mimeType"]
             container_value_arr == Split(Split(mime, <<";">>)[1], <<"/">>)
             container_value == IF Len(container_value_arr) >= 2
                                THEN container_value_arr[2] ELSE <<>>
             codecs_value == Between(mime, <<CodecsOpen>>, <<DQ>>)
             c == IF container_value # <<>> THEN Insert(x, "container", container_value) ELSE x
         IN  IF codecs_value # <<>> THEN Insert(c, "codecs", codecs_value) ELSE c

\* lines 155-187
AddCodecs(x) ==
    LET parts == IF HasKey(x, "codecs") THEN Split(x["codecs"], <<",", " ">>) ELSE <<<<>>>>
        v == IF HasKey(x, "hasVideo") /\ HasKey(x, "codecs") /\ parts[1] # <<>>
             THEN Insert(x, "videoCodec", parts[1]) ELSE x
    IN  IF HasKey(v, "hasAudio") /\ HasKey(v, "codecs") /\ parts[Len(parts)] # <<>>
        THEN Insert(v, "audioCodec", parts[Len(parts)]) ELSE v

\* lines 189-213
AddUrlFlags(x) ==
    Insert(Insert(Insert(x, "isLive", IsLiveUrl(x["url"])),
                  "isHLS", IsHlsUrl(x["url"])),
           "isDashMPD", IsDashUrl(x["url"]))

\* the loop's body without the removals of lines 112-113
NormalizeFormatKeepingToken(x, functions, ocd, ocn) ==
    LET new_url == set_download_url(x, functions, ocd, ocn)
    IN  IF new_url.pc = "panic" THEN [pc |-> "panic", format |-> x]
        ELSE [pc |-> "ok",
              format |-> AddUrlFlags(AddCodecs(AddMime(AddCapabilities(
                  Insert(x, "url", new_url.text)))))]

\* the body of the loop of parse_video_formats for one format: [pc, format]
NormalizeFormat(x, functions, ocd, ocn) ==
    LET new_url == set_download_url(x, functions, ocd, ocn)
    IN  IF new_url.pc = "panic" THEN [pc |-> "panic", format |-> x]
        ELSE [pc |-> "ok",
              format |-> AddUrlFlags(AddCodecs(AddMime(AddCapabilities(
                  Insert(Remove(Remove(x, "signatureCipher"), "cipher"), "url", new_url.text)))))]

(***************************************************************************)
(* filter_formats, sort_formats, choose_format                             *)
(***************************************************************************)
AUDIO_ENCODING_RANKS == <<"mp4a", "mp3", "vorbis", "aac", "opus", "flac">>
VIDEO_ENCODING_RANKS == <<"mp4v", "avc1", "Sorenson H.283", "MPEG-4 Visual", "VP8", "VP9", "H.264">>

\* form.get(k).and_then(|x| x.as_bool()).unwrap_or(false)
BoolOf(form, k) == HasKey(form, k) /\ form[k] = TRUE

\* form.get(k).and_then(|x| x.as_i64()).unwrap_or(0)
IntOf(form, k) == IF HasKey(form, k) THEN form[k] ELSE 0

B2I(b) == IF b THEN 1 ELSE 0

IsDigit(c) == c \in {"0", "1", "2", "3", "4", "5", "6", "7", "8", "9"}

DigitValue(c) ==
    CASE c = "0" -> 0 [] c = "1" -> 1 [] c = "2" -> 2 [] c = "3" -> 3 [] c = "4" -> 4
      [] c = "5" -> 5 [] c = "6" -> 6 [] c = "7" -> 7 [] c = "8" -> 8 [] c = "9" -> 9

RECURSIVE DigitsValue(_)
DigitsValue(s) ==
    IF s = <<>> THEN 0 ELSE 10 * DigitsValue(SubSeq(s, 1, Len(s) - 1)) + DigitValue(s[Len(s)])

\* str::parse::<i32>().unwrap_or(0) on short texts of digits
ParseOrZero(s) ==
    IF s # <<>> /\ \A a \in 1..Len(s) : IsDigit(s[a]) THEN DigitsValue(s) ELSE 0

\* String::pop
Pop(s) == IF s = <<>> THEN s ELSE SubSeq(s, 1, Len(s) - 1)

\* lines 348-359
QualityLabelRank(form) ==
    LET quality_label == IF HasKey(form, "qualityLabel") THEN form["qualityLabel"]
                         ELSE <<"0", "p">>
    IN  ParseOrZero(Pop(quality_label))

\* position of the first table entry the codecs field contains, or -1: lines 374-412
EncodingRank(form, table) ==
    LET hits == {a \in 1..Len(table) :
                    HasKey(form, "codecs") /\ Contains(form["codecs"], <<table[a]>>)}
    IN  IF hits = {} THEN -1
        ELSE (CHOOSE a \in hits : \A b \in hits : a <= b) - 1

VideoEncodingRank(form) == EncodingRank(form, VIDEO_ENCODING_RANKS)
AudioEncodingRank(form) == EncodingRank(form, AUDIO_ENCODING_RANKS)

NumRankKeys == 11

\* the closures handed to sort_formats_by, in their order: lines 316-413
RankKey(n, form) ==
    CASE n = 1 -> B2I(BoolOf(form, "isHLS"))
      [] n = 2 -> B2I(BoolOf(form, "isDashMPD"))
      [] n = 3 -> B2I(IntOf(form, "contentLength") > 0)
      [] n = 4 -> B2I(BoolOf(form, "hasVideo") /\ BoolOf(form, "hasAudio"))
      [] n = 5 -> B2I(BoolOf(form, "hasVideo"))
      [] n = 6 -> QualityLabelRank(form)
      [] n = 7 -> IntOf(form, "bitrate")
      [] n = 8 -> IntOf(form, "audioBitrate")
      [] n = 9 -> IntOf(form, "audioBitrate")
      [] n = 10 -> VideoEncodingRank(form)
      [] n = 11 -> AudioEncodingRank(form)

\* the loop of sort_formats_by from key n on: res of the first key with func(b) - func(a) # 0
RECURSIVE SortRes(_, _, _)
SortRes(a, b, n) ==
    IF n > NumRankKeys THEN 0
    ELSE LET res == RankKey(n, b) - RankKey(n, a)
         IN  IF res # 0 THEN res ELSE SortRes(a, b, n + 1)

\* sort_formats_by with the difference taken as func(a) - func(b)
sort_formats_ascending(a, b) ==
    LET res == 0 - SortRes(a, b, 1)
    IN  IF res >= 1 THEN "Greater" ELSE IF res < 0 THEN "Less" ELSE "Equal"

\* sort_formats_by over the keys of sort_formats: the Ordering of a against b
sort_formats(a, b) ==
    LET res == SortRes(a, b, 1)
    IN  IF res >= 1 THEN "Greater" ELSE IF res < 0 THEN "Less" ELSE "Equal"

\* an insertion that puts x ahead of the elements it compares Equal to
RECURSIVE InsertSortedAheadOfEquals(_, _)
InsertSortedAheadOfEquals(sorted, x) ==
    IF sorted = <<>> THEN <<x>>
    ELSE IF sort_formats(sorted[Len(sorted)], x) # "Less"
    THEN Append(InsertSortedAheadOfEquals(SubSeq(sorted, 1, Len(sorted) - 1), x),
                sorted[Len(sorted)])
    ELSE Append(sorted, x)

\* slice::sort_by, a stable sort: each element goes after the last one not Greater than it
RECURSIVE InsertSorted(_, _)
InsertSorted(sorted, x) ==
    IF sorted = <<>> THEN <<x>>
    ELSE IF sort_formats(sorted[Len(sorted)], x) = "Greater"
    THEN Append(InsertSorted(SubSeq(sorted, 1, Len(sorted) - 1), x), sorted[Len(sorted)])
    ELSE Append(sorted, x)

RECURSIVE SortBy(_)
SortBy(l) ==
    IF l = <<>> THEN <<>> ELSE InsertSorted(SortBy(SubSeq(l, 1, Len(l) - 1)), l[Len(l)])

\* the predicate of each arm of filter_formats
PassesFilter(x, filter) ==
    CASE filter = "Audio" -> ~HasKey(x, "hasVideo") /\ HasKey(x, "hasAudio")
      [] filter = "Video" -> HasKey(x, "hasVideo") /\ ~HasKey(x, "hasAudio")
      [] OTHER -> HasKey(x, "hasVideo") /\ HasKey(x, "hasAudio")

filter_formats(fmts, opts) == SelectSeq(fmts, LAMBDA x : PassesFilter(x, opts.filter))

\* the closure of lines 262-267
HlsOrNotLive(fmt) == BoolOf(fmt, "isHLS") \/ ~BoolOf(fmt, "isLive")

\* the widening drawn from the filtered formats instead of the whole list
ChooseCandidatesFromFiltered(fmts, opts) ==
    LET filtered == filter_formats(fmts, opts)
    IN  IF \E a \in 1..Len(filtered) : BoolOf(filtered[a], "isHLS")
        THEN SelectSeq(filtered, HlsOrNotLive)
        ELSE filtered

\* return_formats after lines 255-269
ChooseCandidates(fmts, opts) ==
    LET filtered == filter_formats(fmts, opts)
    IN  IF \E a \in 1..Len(filtered) : BoolOf(filtered[a], "isHLS")
        THEN SelectSeq(fmts, HlsOrNotLive)
        ELSE filtered

\* the two arms of the match on options.quality exchanged
ChooseIndexExchanged(sorted, opts) == IF opts.quality = "Highest" THEN Len(sorted) - 1 ELSE 0

\* the index choose_format reads: 0 for Highest, len - 1 for Lowest (on an empty
\* vector the subtraction panics under overflow checks and else wraps to an index
\* out of bounds: -1 stands for both)
ChooseIndex(sorted, opts) == IF opts.quality = "Highest" THEN 0 ELSE Len(sorted) - 1

(***************************************************************************)
(* The scanner as a state machine                                          *)
(***************************************************************************)
CutAlphabet == {"{", "}", DQ, SQ, BT, BS, SL, "a", ":"}

RECURSIVE TextsUpTo(_, _)
TextsUpTo(alphabet, n) ==
    IF n = 0 THEN {<<>>}
    ELSE LET shorter == TextsUpTo(alphabet, n - 1)
         IN  shorter \cup {Append(t, c) : t \in {s \in shorter : Len(s) = n - 1}, c \in alphabet}

\* the texts scanned: some examples (texts that need no scan, texts of the `[`
\* kind, objects with brackets and escapes inside string literals, two adjacent
\* objects, objects with a `/` past the tenth character) and every text of up to MaxCutLen characters that starts with `{`
CutExamples ==
    { <<>>, <<"a">>, <<"}", "{">>, <<"a", "{", "}">>, <<SL, "{", "}">>, <<DQ, "[", "]", DQ>>,
      <<"[", "]">>, <<"[", "}", "]", "]">>, <<"[", "[", "]", "]">>,
      <<"{", DQ, "a", DQ, ":", DQ, "}", DQ, "}">>,
      <<"{", DQ, "a", DQ, ":", "a", "}", "{", DQ, "a", DQ, ":", "a", "}">>,
      <<"{", DQ, "}", BS, DQ, BS, BS, DQ, "}">>,
      <<"{", SQ, "}", DQ, BS, SQ, SQ, "}", "}">>,
      <<"{", "a", "a", "a", "a", "a", "a", "a", "a", "a", ":", SL, "}", SL, "}">>,
      <<"{", "a", "a", "a", "a", "a", "a", "a", "a", ":", " ", SL, "}", SL, "}">>,
      <<"{", "a", "a", "a", "a", "a", "a", "a", "a", "a", "a", SL, "}", SL, "}">>,
      <<"{", "a", "a", "a", "a", "a", "a", "a", "a", ":", "a", SL, "}", SL, "}">>,
      <<"{", "a", "a", "a", "a", "a", "a", "a", "a", "a", BS, SL, "}", SL, "}">> }

CutInputs ==
    CutExamples
        \cup {<<"{">> \o t : t \in TextsUpTo(CutAlphabet, MaxCutLen - 1)}

CutIdle ==
    /\ mixed_json = <<>>
    /\ i = 0
    /\ is_escaped = FALSE
    /\ is_escaped_object = NoLiteral
    /\ counter = 0
    /\ return_string = None
    /\ cut_pc = "idle"

CutState == [i |-> i, is_escaped |-> is_escaped, obj |-> is_escaped_object,
             counter |-> counter, ret |-> return_string, pc |-> cut_pc]

SetCutState(st) ==
    /\ i' = st.i
    /\ is_escaped' = st.is_escaped
    /\ is_escaped_object' = st.obj
    /\ counter' = st.counter
    /\ return_string' = st.ret
    /\ cut_pc' = st.pc

\* the call: lines 1269-1300
CutCall ==
    /\ cut_pc = "idle"
    /\ \E text \in CutInputs :
        /\ mixed_json' = text
        /\ SetCutState(CutEntry(text))
    /\ UNCHANGED <<overflow_checks, pureVars, urlVars, pipeVars, selVars>>

\* one iteration of the loop, or its exit: lines 1302-1366
CutIterate ==
    /\ cut_pc = "scan"
    /\ SetCutState(CutIter(mixed_json, CutState, overflow_checks))
    /\ UNCHANGED <<overflow_checks, pureVars, urlVars, mixed_json, pipeVars, selVars>>

PipeIdle ==
    /\ response = <<>>
    /\ format_functions = <<>>
    /\ info = <<>>
    /\ formats = <<>>
    /\ fmt_i = 0
    /\ pass = 0
    /\ first_pass = <<>>
    /\ pipe_pc = "start"

\* the selector not called: its variables hold fixed values
SelIdle ==
    /\ options = [filter |-> "VideoAudio", quality |-> "Highest"]
    /\ sel_formats = <<>>
    /\ candidates = <<>>
    /\ return_formats = <<>>
    /\ chosen = [some |-> FALSE, val |-> <<>>]
    /\ sel_pc = "idle"

UrlIdle ==
    /\ url_format = <<>>
    /\ url_functions = <<>>
    /\ url_text = <<>>
    /\ url_calls = <<>>
    /\ url_pc = "idle"

\* between and the rank closure not called
PureIdle ==
    /\ btw_haystack = <<>>
    /\ btw_left = <<>>
    /\ btw_right = <<>>
    /\ btw_return = <<>>
    /\ btw_pc = "idle"
    /\ rank_form = <<>>
    /\ rank_key = 0
    /\ rank_pc = "idle"

CutInit ==
    /\ overflow_checks \in BOOLEAN
    /\ CutIdle
    /\ PipeIdle
    /\ SelIdle
    /\ UrlIdle
    /\ PureIdle

CutNext == CutCall \/ CutIterate

SpecCut == CutInit /\ [][CutNext]_vars

(***************************************************************************)
(* The inputs of the pipeline                                              *)
(***************************************************************************)
Wxa == <<"W", "x", "a">>
Fq == <<"f", "q">>
Pla == <<"p", "l", "a">>
Gh == <<"g", "h">>

\* `...a.set("alr","yes");c&&(c=NAME(decodeURIC...`
DecipherCallSite(name) == <<"x", AlrAnchor>> \o name \o <<DecodeAnchor, ";">>
\* `var Z={r};NAME=function(a){a=a.split("");Z.r;sig};`
DecipherDefinition(name) ==
    <<VarKw, "Z", "=", "{", "r", "}", ";">> \o name
        \o <<FunctionA, "{", SplitIdiom, "Z", ".", "r", ";", "sig", "}", ";">>
\* the same function cut short: its closing bracket is missing
DecipherTruncated(name) == name \o <<FunctionA, "{", SplitIdiom, "sig", ";">>
\* `...&&(b=a.get("n"))&&(b=NAME(b)...`
NcodeCallSite(name) == <<"y", GetNAnchor>> \o name \o <<CallB, ";">>
\* `...&&(b=a.get("n"))&&(b=q[0](b)...var q=[NAME];`
NcodeIndexedCallSite(name) ==
    <<"y", GetNAnchor, "q", "[", "0", "]", CallB, ";", VarKw, "q", "=", "[">> \o name \o <<"]", ";">>
NcodeDefinition(name) == name \o <<FunctionA, "{", "nt", "}", ";">>
NcodeTruncated(name) == name \o <<FunctionA, "{", "nt", ";">>

PlayerScripts == {
    DecipherCallSite(Wxa) \o DecipherDefinition(Wxa) \o NcodeCallSite(Pla) \o NcodeDefinition(Pla),
    DecipherCallSite(Fq) \o DecipherDefinition(Fq) \o NcodeCallSite(Gh) \o NcodeDefinition(Gh),
    NcodeCallSite(Pla) \o NcodeDefinition(Pla),
    DecipherCallSite(Wxa) \o DecipherDefinition(Wxa),
    NcodeIndexedCallSite(Pla) \o NcodeDefinition(Pla) \o DecipherCallSite(Wxa) \o DecipherTruncated(Wxa),
    DecipherCallSite(Wxa) \o NcodeIndexedCallSite(Pla) \o NcodeDefinition(Pla),
    DecipherCallSite(Wxa) \o DecipherDefinition(Wxa) \o NcodeCallSite(Pla) \o NcodeTruncated(Pla),
    <<"x", ";">>
}

MimeMuxed == <<"video", "/", "mp4", ";", " ", CodecsOpen, "avc1", ".4d", ",", " ", "mp4a", ".40", DQ>>
MimeAudio == <<"audio", "/", "webm", ";", " ", CodecsOpen, "opus", DQ>>

RawFormats == {
    [url |-> UrlPlain, qualityLabel |-> "720p", audioQuality |-> "low", mimeType |-> MimeMuxed],
    [signatureCipher |-> Token(<<KV("s", "S0"), KV("sp", "sig"), KV("url", "UrlSigned")>>),
     qualityLabel |-> "1080p", itag |-> 137],
    [cipher |-> Token(<<KV("s", "S0"), KV("url", "UrlPlain")>>), audioBitrate |-> 128,
     mimeType |-> MimeAudio],
    [signatureCipher |-> Token(<<KV("url", "UrlNoN")>>), audioQuality |-> "low"],
    [url |-> UrlNFirst, qualityLabel |-> "720p"],
    [url |-> UrlHlsLive, audioQuality |-> "low"],
    [url |-> UrlNoN, hasVideo |-> FALSE, audioBitrate |-> 128],
    \* neither url nor cipher
    [itag |-> 18, qualityLabel |-> "360p"],
    \* a url that is no query string (a key given twice)
    [url |-> UrlTwice, qualityLabel |-> "360p"],
    \* a token that is no query string
    [signatureCipher |-> Token(<<KV("s", "S0"), KV("s", "S1"), KV("url", "UrlPlain")>>)],
    \* a token whose url item is no URL
    [signatureCipher |-> Token(<<KV("s", "S0"), KV("url", "junk")>>)],
    \* a url that is no URL
    [url |-> NotAUrl, audioQuality |-> "low"]
}

RECURSIVE ListsUpTo(_, _)
ListsUpTo(S, n) ==
    IF n = 0 THEN {<<>>}
    ELSE LET shorter == ListsUpTo(S, n - 1)
         IN  shorter \cup {Append(l, x) : l \in {m \in shorter : Len(m) = n - 1}, x \in S}

(***************************************************************************)
(* The pipeline: get_functions, then parse_video_formats                   *)
(***************************************************************************)
\* get_functions: extract_functions on the downloaded player script
ExtractFunctions ==
    /\ pipe_pc = "start"
    /\ \E b \in PlayerScripts :
        LET r == extract_functions(b, overflow_checks)
        IN  /\ response' = b
            /\ format_functions' = r.functions
            /\ pipe_pc' = IF r.pc = "panic" THEN "extract_panic" ELSE "extracted"
    /\ UNCHANGED <<overflow_checks, pureVars, urlVars, cutVars, selVars, info, formats, fmt_i, pass, first_pass>>

\* parse_video_formats up to its loop: lines 89-105
ParseVideoFormats ==
    /\ pipe_pc = "extracted"
    /\ \E l \in ListsUpTo(RawFormats, MaxFormats) :
        /\ info' = l
        /\ formats' = l
    /\ fmt_i' = 0
    /\ pass' = 1
    /\ pipe_pc' = "normalize"
    /\ UNCHANGED <<overflow_checks, pureVars, urlVars, cutVars, selVars, response, format_functions, first_pass>>

\* one iteration of the loop: lines 106-217
NormalizeStep ==
    /\ pipe_pc = "normalize"
    /\ fmt_i < Len(formats)
    /\ \E ocd \in InvokeOutcomes, ocn \in InvokeOutcomes :
        LET r == NormalizeFormat(formats[fmt_i + 1], format_functions, ocd, ocn)
        IN  IF r.pc = "panic"
            THEN /\ pipe_pc' = "parse_panic"
                 /\ UNCHANGED <<formats, fmt_i>>
            ELSE /\ formats' = [formats EXCEPT ![fmt_i + 1] = r.format]
                 /\ fmt_i' = fmt_i + 1
                 /\ pipe_pc' = "normalize"
    /\ UNCHANGED <<overflow_checks, pureVars, urlVars, cutVars, selVars, response, format_functions, info, pass, first_pass>>

\* the loop's exit: Some(formats), line 219
ParseReturn ==
    /\ pipe_pc = "normalize"
    /\ fmt_i = Len(formats)
    /\ pipe_pc' = "parsed"
    /\ first_pass' = IF pass = 1 THEN formats ELSE first_pass
    /\ UNCHANGED <<overflow_checks, pureVars, urlVars, cutVars, selVars, response, format_functions, info, formats, fmt_i, pass>>

\* parse_video_formats run again, on the formats it returned
ParseAgain ==
    /\ pipe_pc = "parsed"
    /\ pass = 1
    /\ info' = formats
    /\ fmt_i' = 0
    /\ pass' = 2
    /\ pipe_pc' = "normalize"
    /\ UNCHANGED <<overflow_checks, pureVars, urlVars, cutVars, selVars, response, format_functions, formats, first_pass>>

Init ==
    /\ overflow_checks \in BOOLEAN
    /\ CutIdle
    /\ PipeIdle
    /\ SelIdle
    /\ UrlIdle
    /\ PureIdle

Next == ExtractFunctions \/ ParseVideoFormats \/ NormalizeStep \/ ParseReturn \/ ParseAgain

Spec == Init /\ [][Next]_vars

\* parse_video_formats alone: get_functions has returned, on a script with both
\* functions or on one with neither
ParseScripts == {
    DecipherCallSite(Wxa) \o DecipherDefinition(Wxa) \o NcodeCallSite(Pla) \o NcodeDefinition(Pla),
    <<"x", ";">>
}

ParseInit ==
    /\ overflow_checks = FALSE
    /\ CutIdle
    /\ SelIdle
    /\ UrlIdle
    /\ PureIdle
    /\ response \in ParseScripts
    /\ format_functions = extract_functions(response, overflow_checks).functions
    /\ info = <<>>
    /\ formats = <<>>
    /\ fmt_i = 0
    /\ pass = 0
    /\ first_pass = <<>>
    /\ pipe_pc = "extracted"

ParseNext == ParseVideoFormats \/ NormalizeStep \/ ParseReturn \/ ParseAgain

SpecParse == ParseInit /\ [][ParseNext]_vars

(***************************************************************************)
(* The selector: choose_format and filter_formats on normalized formats    *)
(***************************************************************************)
Q720 == <<"7", "2", "0", "p">>
Q1080 == <<"1", "0", "8", "0", "p">>
CodecsAvcMp4a == <<"avc1", ".4d", ",", " ", "mp4a", ".40">>
CodecsVp9Opus == <<"VP9", ",", " ", "opus">>
CodecsAvcOpus == <<"avc1", ".4d", ",", " ", "opus">>
CodecsAvc == <<"avc1", ".4d">>

NormalizedFormats == {
    [hasVideo |-> TRUE, hasAudio |-> TRUE, qualityLabel |-> Q720, bitrate |-> 100,
     codecs |-> CodecsAvcMp4a, isHLS |-> FALSE, isLive |-> FALSE, isDashMPD |-> FALSE],
    [hasVideo |-> TRUE, hasAudio |-> TRUE, qualityLabel |-> Q720, bitrate |-> 100, itag |-> 22,
     codecs |-> CodecsAvcMp4a, isHLS |-> FALSE, isLive |-> FALSE, isDashMPD |-> FALSE],
    [hasVideo |-> TRUE, hasAudio |-> TRUE, qualityLabel |-> Q1080, bitrate |-> 50,
     codecs |-> CodecsAvcMp4a, isHLS |-> FALSE, isLive |-> FALSE, isDashMPD |-> FALSE],
    [hasVideo |-> TRUE, hasAudio |-> TRUE, qualityLabel |-> Q720, bitrate |-> 100,
     codecs |-> CodecsVp9Opus, isHLS |-> FALSE, isLive |-> FALSE, isDashMPD |-> FALSE],
    [hasVideo |-> TRUE, hasAudio |-> TRUE, qualityLabel |-> Q720, bitrate |-> 100,
     codecs |-> CodecsAvcOpus, isHLS |-> FALSE, isLive |-> FALSE, isDashMPD |-> FALSE],
    [hasVideo |-> TRUE, hasAudio |-> TRUE, qualityLabel |-> Q720, bitrate |-> 100,
     codecs |-> CodecsAvc, isHLS |-> FALSE, isLive |-> FALSE, isDashMPD |-> FALSE],
    [hasVideo |-> TRUE, hasAudio |-> TRUE, qualityLabel |-> Q720, bitrate |-> 100,
     isHLS |-> FALSE, isLive |-> FALSE, isDashMPD |-> FALSE],
    [hasVideo |-> TRUE, hasAudio |-> TRUE, isHLS |-> TRUE, isLive |-> TRUE, isDashMPD |-> FALSE],
    [hasVideo |-> TRUE, qualityLabel |-> Q720, isHLS |-> FALSE, isLive |-> TRUE,
     isDashMPD |-> FALSE],
    [hasVideo |-> TRUE, qualityLabel |-> Q1080, bitrate |-> 50, contentLength |-> 5,
     isHLS |-> FALSE, isLive |-> FALSE, isDashMPD |-> FALSE],
    [hasAudio |-> TRUE, audioBitrate |-> 128, codecs |-> <<"opus">>,
     isHLS |-> FALSE, isLive |-> FALSE, isDashMPD |-> FALSE],
    [hasVideo |-> FALSE, hasAudio |-> TRUE, audioBitrate |-> 64,
     isHLS |-> FALSE, isLive |-> FALSE, isDashMPD |-> TRUE]
}

Filters == {"Audio", "Video", "VideoAudio"}
Qualities == {"Highest", "Lowest"}

\* choose_format(formats, options): filter and widen (lines 255-269), sort (272),
\* index (274-281); an index outside the vector is a panic
ChooseFormat ==
    /\ sel_pc = "idle"
    /\ \E fmts \in ListsUpTo(NormalizedFormats, MaxSelFormats) :
        /\ sel_formats' = fmts
        /\ candidates' = ChooseCandidates(fmts, options)
        /\ return_formats' = SortBy(candidates')
        /\ LET ix == ChooseIndex(return_formats', options)
           IN  IF ix < 0 \/ ix >= Len(return_formats')
               THEN chosen' = None /\ sel_pc' = "panic"
               ELSE chosen' = Some(return_formats'[ix + 1]) /\ sel_pc' = "chosen"
    /\ UNCHANGED <<overflow_checks, pureVars, urlVars, cutVars, pipeVars, options>>

\* filter_formats(formats, options)
FilterFormats ==
    /\ sel_pc = "idle"
    /\ \E fmts \in ListsUpTo(NormalizedFormats, MaxSelFormats) :
        /\ sel_formats' = fmts
        /\ return_formats' = filter_formats(fmts, options)
    /\ sel_pc' = "filtered"
    /\ UNCHANGED <<overflow_checks, pureVars, urlVars, cutVars, pipeVars, options, candidates, chosen>>

\* the options are the caller's, set before the call; the selector does no
\* arithmetic whose outcome differs between the builds
SelInit ==
    /\ overflow_checks = FALSE
    /\ CutIdle
    /\ PipeIdle
    /\ UrlIdle
    /\ PureIdle
    /\ options \in [filter : Filters, quality : Qualities]
    /\ sel_formats = <<>>
    /\ candidates = <<>>
    /\ return_formats = <<>>
    /\ chosen = None
    /\ sel_pc = "idle"

SelNext == ChooseFormat \/ FilterFormats

SpecSelect == SelInit /\ [][SelNext]_vars

(***************************************************************************)
(* set_download_url on one format, call by call                            *)
(***************************************************************************)
UrlRelative == [abs |-> FALSE, path |-> <<"videoplayback">>,
                pairs |-> <<KV("itag", "18"), KV("n", "N0")>>]

\* the formats set_download_url is called on
UrlFormats == RawFormats \cup {
    \* a url and a token
    [url |-> UrlPlain, signatureCipher |-> Token(<<KV("s", "S0"), KV("url", "UrlSigned")>>)],
    \* a url with no scheme and host
    [url |-> UrlRelative],
    \* a token with neither s nor url
    [cipher |-> Token(<<KV("sp", "sig")>>)],
    \* a token with s and no url
    [cipher |-> Token(<<KV("s", "S0")>>)],
    \* a token whose sp names a parameter the url lacks
    [signatureCipher |-> Token(<<KV("s", "S1"), KV("sp", "sig"), KV("url", "UrlPlain")>>)]
}

\* the vectors extract_functions returns on the player scripts
FunctionVectors == {extract_functions(b, FALSE).functions : b \in PlayerScripts}

\* the call, up to line 583: url is the text of url, else signatureCipher, else cipher
SetDownloadUrl ==
    /\ url_pc = "idle"
    /\ \E f \in UrlFormats, fs \in FunctionVectors :
        /\ url_format' = f
        /\ url_functions' = fs
        /\ url_text' = SourceText(f)
        /\ url_pc' = IF IsCiphered(f) THEN "decipher" ELSE "ncode"
    /\ url_calls' = <<>>
    /\ UNCHANGED <<overflow_checks, pureVars, cutVars, pipeVars, selVars>>

\* the call of decipher at line 589
Decipher ==
    /\ url_pc = "decipher"
    /\ \E oc \in InvokeOutcomes :
        LET script == decipher_script_string(url_functions)
            r == decipher(url_text, script, oc)
        IN  /\ url_calls' = Append(url_calls, [fn |-> "decipher", arg |-> url_text,
                                               script |-> script, oc |-> oc, ret |-> r])
            /\ url_text' = IF r.pc = "panic" THEN url_text ELSE r.text
            /\ url_pc' = IF r.pc = "panic" THEN "panic" ELSE "ncode"
    /\ UNCHANGED <<overflow_checks, pureVars, cutVars, pipeVars, selVars, url_format, url_functions>>

\* the call of ncode at line 588 or 596, and the insert of its result as "url"
Ncode ==
    /\ url_pc = "ncode"
    /\ \E oc \in InvokeOutcomes :
        LET script == n_transform_script_string(url_functions)
            r == ncode(url_text, script, oc)
        IN  /\ url_calls' = Append(url_calls, [fn |-> "ncode", arg |-> url_text,
                                               script |-> script, oc |-> oc, ret |-> r])
            /\ url_text' = IF r.pc = "panic" THEN url_text ELSE r.text
            /\ url_pc' = IF r.pc = "panic" THEN "panic" ELSE "parse"
    /\ UNCHANGED <<overflow_checks, pureVars, cutVars, pipeVars, selVars, url_format, url_functions>>

\* lines 604-612: Url::parse of the "url" entry, unwrapped, and the return
ReturnUrl ==
    /\ url_pc = "parse"
    /\ url_pc' = IF UrlParseOk(url_text) THEN "returned" ELSE "panic"
    /\ UNCHANGED <<overflow_checks, pureVars, cutVars, pipeVars, selVars, url_format, url_functions,
                   url_text, url_calls>>

\* decipher and ncode do no arithmetic whose outcome differs between the builds
UrlInit ==
    /\ overflow_checks = FALSE
    /\ CutIdle
    /\ PipeIdle
    /\ SelIdle
    /\ UrlIdle
    /\ PureIdle

UrlNext == SetDownloadUrl \/ Decipher \/ Ncode \/ ReturnUrl

SpecUrl == UrlInit /\ [][UrlNext]_vars

(***************************************************************************)
(* between on one haystack                                                 *)
(***************************************************************************)
\* haystacks with and without a two-byte character
BtwAlphabet == {"a", "b", "=", EAcute}

BtwNeedles == {<<>>, <<"a", "=">>, <<"=", "b">>, <<EAcute>>}

\* the call: lines 1248-1267
BetweenCall ==
    /\ btw_pc = "called"
    /\ btw_return' = Between(btw_haystack, btw_left, btw_right)
    /\ btw_pc' = "returned"
    /\ UNCHANGED <<overflow_checks, cutVars, pipeVars, selVars, urlVars, btw_haystack,
                   btw_left, btw_right, rank_form, rank_key, rank_pc>>

BetweenInit ==
    /\ overflow_checks = FALSE
    /\ CutIdle
    /\ PipeIdle
    /\ SelIdle
    /\ UrlIdle
    /\ btw_haystack \in TextsUpTo(BtwAlphabet, MaxHayLen)
    /\ btw_left \in BtwNeedles
    /\ btw_right \in BtwNeedles
    /\ btw_return = <<>>
    /\ btw_pc = "called"
    /\ rank_form = <<>>
    /\ rank_key = 0
    /\ rank_pc = "idle"

BetweenNext == BetweenCall

SpecBetween == BetweenInit /\ [][BetweenNext]_vars

(***************************************************************************)
(* the quality-label closure of sort_formats on one format                 *)
(***************************************************************************)
LabelAlphabet == {"7", "2", "0", "p"}

\* formats with a quality label of up to MaxLabelLen characters, and one without
RankForms ==
    {[qualityLabel |-> l] : l \in TextsUpTo(LabelAlphabet, MaxLabelLen)} \cup {[bitrate |-> 100]}

\* the closure's call: lines 348-359
RankCall ==
    /\ rank_pc = "called"
    /\ rank_key' = QualityLabelRank(rank_form)
    /\ rank_pc' = "returned"
    /\ UNCHANGED <<overflow_checks, cutVars, pipeVars, selVars, urlVars, btw_haystack,
                   btw_left, btw_right, btw_return, btw_pc, rank_form>>

RankInit ==
    /\ overflow_checks = FALSE
    /\ CutIdle
    /\ PipeIdle
    /\ SelIdle
    /\ UrlIdle
    /\ btw_haystack = <<>>
    /\ btw_left = <<>>
    /\ btw_right = <<>>
    /\ btw_return = <<>>
    /\ btw_pc = "idle"
    /\ rank_form \in RankForms
    /\ rank_key = 0
    /\ rank_pc = "called"

RankNext == RankCall

SpecRank == RankInit /\ [][RankNext]_vars

(***************************************************************************)
(* Claims on the pipeline (Spec)                                           *)
(***************************************************************************)
\* C1: no failure on one format aborts parse_video_formats: the run never ends in
\* a panic, and when it returns it returns every format of its input.
C1_NormalizationNeverAborts ==
    /\ pipe_pc # "parse_panic"
    /\ pipe_pc = "parsed" => Len(formats) = Len(info)

\* C3: a second run of the normalizer on the formats it returned leaves url,
\* hasVideo and hasAudio of every format as the first run left them.
C3_SecondRunKeepsResolvedFields ==
    (pipe_pc = "parsed" /\ pass = 2) =>
        \A k \in 1..Len(formats) :
            /\ formats[k]["url"] = first_pass[k]["url"]
            /\ HasKey(formats[k], "hasVideo") = HasKey(first_pass[k], "hasVideo")
            /\ HasKey(formats[k], "hasAudio") = HasKey(first_pass[k], "hasAudio")
            /\ BoolOf(formats[k], "hasVideo") = BoolOf(first_pass[k], "hasVideo")
            /\ BoolOf(formats[k], "hasAudio") = BoolOf(first_pass[k], "hasAudio")

Extracted == pipe_pc \notin {"start", "extract_panic"}

\* the snippet each procedure yields on its own, <<>> when it yields none
DecipherSnippet == extract_decipher(response, <<>>, overflow_checks).functions
NcodeSnippet == extract_ncode(response, <<>>, overflow_checks).functions

\* C4: each role's script is the snippet extracted for that role, and is empty
\* (the role unavailable) when that role's extraction yielded none.
C4_SnippetsKeyedByRole ==
    Extracted =>
        /\ decipher_script_string(format_functions)
              = (IF DecipherSnippet = <<>> THEN <<>> ELSE DecipherSnippet[1])
        /\ n_transform_script_string(format_functions)
              = (IF NcodeSnippet = <<>> THEN <<>> ELSE NcodeSnippet[1])

\* C5: the snippet of each role defines `var <name>=function(a)` for the name the
\* invocation of that role passes as its entry point.
C5_EntryPointIsTheSnippetsName ==
    Extracted =>
        /\ DecipherSnippet # <<>> =>
              Contains(DecipherSnippet[1], <<VarKw>> \o DecipherEntry \o <<FunctionA>>)
        /\ NcodeSnippet # <<>> =>
              Contains(NcodeSnippet[1], <<VarKw>> \o NcodeEntry \o <<FunctionA>>)

\* the text after `<name>=function(a)`, when the name and that anchor are found
HasDefinition(name) == Len(name) > 0 /\ IndexOf(response, name \o <<FunctionA>>) >= 0
DefinitionBody(name) ==
    Slice(response, IndexOf(response, name \o <<FunctionA>>) + Len(name) + 1)
Balanced(name) == CutAfterJs(DefinitionBody(name), overflow_checks).ret.some

\* C6: a role whose `name=function(a)` anchor is missing, or whose function body
\* has no balanced region, gets no snippet.
C6_NoSnippetWithoutBalancedBody ==
    Extracted =>
        /\ (~HasDefinition(DecipherName(response)) \/ ~Balanced(DecipherName(response)))
              => DecipherSnippet = <<>>
        /\ (~HasDefinition(NcodeName(response)) \/ ~Balanced(NcodeName(response)))
              => NcodeSnippet = <<>>

(***************************************************************************)
(* Claims on the scanner (SpecCut)                                         *)
(***************************************************************************)
\* C2: a scan of a text starting with `{` or `[` that ends without the depth having
\* returned to zero ends by returning none, never by a panic.
C2_UnbalancedReturnsNone ==
    (cut_pc \in {"returned", "panic"} /\ OpenOf(mixed_json) # "" /\ ~return_string.some)
        => (cut_pc = "returned" /\ return_string = None)

(***************************************************************************)
(* Claims on the selector (SpecSelect)                                     *)
(***************************************************************************)
\* C7: choose_format on an empty candidate set ends with an error signalled to
\* the caller (neither a format nor a panic).
C7_EmptyCandidatesSignalError ==
    (sel_pc \in {"chosen", "panic", "error"} /\ candidates = <<>>) => sel_pc = "error"

RankKeys(form) == [n \in 1..NumRankKeys |-> RankKey(n, form)]

\* x is at least y in the lexicographic order of the keys
LexAtLeast(x, y) ==
    \/ x = y
    \/ \E n \in 1..NumRankKeys : x[n] > y[n] /\ \A m \in 1..(n - 1) : x[m] = y[m]

\* a and b agree on every key before key n
TiedBefore(a, b, n) == \A m \in 1..(n - 1) : RankKey(m, a) = RankKey(m, b)

MatchesEntry(form, table) == EncodingRank(form, table) >= 0

\* C9 as stated: of two sorted candidates tied on the earlier keys, the one matching
\* an earlier table entry comes first, and one matching no entry comes after one
\* that matches; for the video table and for the audio table.
C9_EarlierEntryRankedAhead ==
    sel_pc = "chosen" =>
        \A p, q \in 1..Len(return_formats) :
            LET a == return_formats[p]
                b == return_formats[q]
            IN  /\ ( /\ TiedBefore(a, b, 10)
                     /\ MatchesEntry(a, VIDEO_ENCODING_RANKS)
                     /\ \/ ~MatchesEntry(b, VIDEO_ENCODING_RANKS)
                        \/ EncodingRank(a, VIDEO_ENCODING_RANKS) < EncodingRank(b, VIDEO_ENCODING_RANKS) )
                   => p < q
                /\ ( /\ TiedBefore(a, b, 11)
                     /\ MatchesEntry(a, AUDIO_ENCODING_RANKS)
                     /\ \/ ~MatchesEntry(b, AUDIO_ENCODING_RANKS)
                        \/ EncodingRank(a, AUDIO_ENCODING_RANKS) < EncodingRank(b, AUDIO_ENCODING_RANKS) )
                   => p < q

\* C9 as amended: of two sorted candidates tied on the earlier keys, the one matching
\* a later table entry comes first, and one matching no entry comes after one that
\* matches; for the video table and for the audio table.
C9_LaterEntryRankedAhead ==
    sel_pc = "chosen" =>
        \A p, q \in 1..Len(return_formats) :
            LET a == return_formats[p]
                b == return_formats[q]
            IN  /\ ( /\ TiedBefore(a, b, 10)
                     /\ MatchesEntry(a, VIDEO_ENCODING_RANKS)
                     /\ \/ ~MatchesEntry(b, VIDEO_ENCODING_RANKS)
                        \/ EncodingRank(a, VIDEO_ENCODING_RANKS) > EncodingRank(b, VIDEO_ENCODING_RANKS) )
                   => p < q
                /\ ( /\ TiedBefore(a, b, 11)
                     /\ MatchesEntry(a, AUDIO_ENCODING_RANKS)
                     /\ \/ ~MatchesEntry(b, AUDIO_ENCODING_RANKS)
                        \/ EncodingRank(a, AUDIO_ENCODING_RANKS) > EncodingRank(b, AUDIO_ENCODING_RANKS) )
                   => p < q

\* the sort placed a later video entry before an earlier one, a later audio entry
\* before an earlier one, and a format matching no entry last, all among ties
C9_Witness ==
    /\ sel_pc = "chosen"
    /\ \E p, q \in 1..Len(return_formats) :
          /\ p < q
          /\ TiedBefore(return_formats[p], return_formats[q], 10)
          /\ MatchesEntry(return_formats[q], VIDEO_ENCODING_RANKS)
          /\ EncodingRank(return_formats[p], VIDEO_ENCODING_RANKS)
                > EncodingRank(return_formats[q], VIDEO_ENCODING_RANKS)
    /\ \E p, q \in 1..Len(return_formats) :
          /\ p < q
          /\ TiedBefore(return_formats[p], return_formats[q], 11)
          /\ MatchesEntry(return_formats[p], AUDIO_ENCODING_RANKS)
          /\ ~MatchesEntry(return_formats[q], AUDIO_ENCODING_RANKS)

HlsFlagged(x) == HasKey(x, "isHLS") /\ x["isHLS"] = TRUE
LiveFlagged(x) == HasKey(x, "isLive") /\ x["isLive"] = TRUE
SomeFilteredIsHls ==
    \E k \in 1..Len(sel_formats) :
        PassesFilter(sel_formats[k], options.filter) /\ HlsFlagged(sel_formats[k])

\* C10: when a format passing the mode filter is HLS-flagged, the candidates are the
\* formats of the whole list that are HLS-flagged or not live-flagged, in order;
\* otherwise they are the formats passing the filter.
C10_HlsWidening ==
    sel_pc \in {"chosen", "panic"} =>
        candidates =
            IF SomeFilteredIsHls
            THEN SelectSeq(sel_formats, LAMBDA x : HlsFlagged(x) \/ ~LiveFlagged(x))
            ELSE SelectSeq(sel_formats, LAMBDA x : PassesFilter(x, options.filter))

\* widening admitted a non-live format that fails the filter and left out a live one
C10_Witness ==
    /\ sel_pc = "chosen"
    /\ SomeFilteredIsHls
    /\ \E k \in 1..Len(candidates) :
          /\ ~HlsFlagged(candidates[k])
          /\ ~LiveFlagged(candidates[k])
          /\ ~PassesFilter(candidates[k], options.filter)
    /\ \E k \in 1..Len(sel_formats) :
          /\ ~HlsFlagged(sel_formats[k])
          /\ LiveFlagged(sel_formats[k])
          /\ \A j \in 1..Len(candidates) : candidates[j] # sel_formats[k]

\* the mode predicate on the truth of the capabilities
MeetsMode(x, filter) ==
    CASE filter = "Audio" -> BoolOf(x, "hasAudio") /\ ~BoolOf(x, "hasVideo")
      [] filter = "Video" -> BoolOf(x, "hasVideo") /\ ~BoolOf(x, "hasAudio")
      [] OTHER -> BoolOf(x, "hasVideo") /\ BoolOf(x, "hasAudio")

\* C11: filter_formats returns exactly the formats whose capabilities, by their
\* truth, meet the mode: a format with hasVideo = false counts as having no video.
C11_FilterByCapabilityTruth ==
    sel_pc = "filtered" =>
        return_formats = SelectSeq(sel_formats, LAMBDA x : MeetsMode(x, options.filter))

(***************************************************************************)
(* Claims on the URL resolution (SpecUrl)                                  *)
(***************************************************************************)
\* a logged call got as far as calling the script, and what the call returned
Invoked(c, key) == QsOk(c.arg) /\ QsHas(c.arg, key) /\ c.script # <<>>
CallResult(c, key, entry) == ScriptCall(c.script, entry, QsGet(c.arg, key), c.oc)
InvocationFailed(c, key, entry) ==
    Invoked(c, key) /\ (~ScriptLoadOk(c.script, c.oc) \/ ~CallResult(c, key, entry).some)
InvocationSucceeded(c, key, entry) ==
    Invoked(c, key) /\ ScriptLoadOk(c.script, c.oc) /\ CallResult(c, key, entry).some

NcodeCalls == {k \in 1..Len(url_calls) : url_calls[k].fn = "ncode"}
DecipherCalls == {k \in 1..Len(url_calls) : url_calls[k].fn = "decipher"}

\* C12: for a format with a url whose n-transform snippet is there and fails on
\* load or call, set_download_url returns, and returns the url of the format.
C12_FailedNTransformKeepsUrl ==
    ( /\ url_pc \in {"returned", "panic"}
      /\ HasKey(url_format, "url")
      /\ \E k \in NcodeCalls : InvocationFailed(url_calls[k], "n", NcodeEntry) )
    => (url_pc = "returned" /\ url_text = url_format["url"])

\* the token of a format without url: signatureCipher, else cipher, else the empty text
TokenOf(f) ==
    IF HasKey(f, "signatureCipher") THEN f["signatureCipher"]
    ELSE IF HasKey(f, "cipher") THEN f["cipher"] ELSE EmptyText

UrlItemParses(args) == QsHas(args, "url") /\ UrlParseOk(UrlOf(QsGet(args, "url")))

\* C14: decipher returns the url item of its input, or the input when it has none,
\* whenever the input has no s item, the snippet is empty, the load or the call
\* fails, or the url item is no URL.
C14_DecipherFallsBack ==
    \A k \in DecipherCalls :
        LET c == url_calls[k]
        IN  ( \/ ~QsHas(c.arg, "s")
              \/ c.script = <<>>
              \/ InvocationFailed(c, "s", DecipherEntry)
              \/ (InvocationSucceeded(c, "s", DecipherEntry) /\ ~UrlItemParses(c.arg)) )
            => c.ret = Ok(IF QsHas(c.arg, "url") THEN UrlOf(QsGet(c.arg, "url")) ELSE c.arg)

\* C15: when the call succeeds and the url item parses, decipher returns that URL
\* with the parameter named by sp (signature without sp) set to the result:
\* replaced where the URL has it, appended once where it has not, the other
\* parameters as they were.
C15_SignatureParameterSet ==
    \A k \in DecipherCalls :
        LET c == url_calls[k]
            u == UrlOf(QsGet(c.arg, "url"))
            name == IF QsHas(c.arg, "sp") THEN QsGet(c.arg, "sp") ELSE "signature"
            sig == KV(name, CallResult(c, "s", DecipherEntry).val)
            out == c.ret.text
            present == \E a \in 1..Len(u.pairs) : u.pairs[a].k = name
        IN  (InvocationSucceeded(c, "s", DecipherEntry) /\ UrlItemParses(c.arg)) =>
              /\ c.ret.pc = "ok"
              /\ out.abs = u.abs /\ out.path = u.path
              /\ Len(out.pairs) = Len(u.pairs) + (IF present THEN 0 ELSE 1)
              /\ \A a \in 1..Len(u.pairs) :
                    out.pairs[a] = IF u.pairs[a].k = name THEN sig ELSE u.pairs[a]
              /\ ~present => out.pairs[Len(out.pairs)] = sig

\* a signature replaced the value of a parameter the URL had
C15_Witness ==
    \E k \in DecipherCalls :
        LET c == url_calls[k]
        IN  /\ InvocationSucceeded(c, "s", DecipherEntry)
            /\ UrlItemParses(c.arg)
            /\ QsHas(c.arg, "sp")
            /\ \E a \in 1..Len(c.ret.text.pairs) :
                  /\ c.ret.text.pairs[a].k = QsGet(c.arg, "sp")
                  /\ a < Len(c.ret.text.pairs)
                  /\ c.ret.text.pairs[a].v = CallResult(c, "s", DecipherEntry).val
                  /\ UrlOf(QsGet(c.arg, "url")).pairs[a].v # c.ret.text.pairs[a].v

\* C16: ncode returns its input when the input has no n item or the snippet is
\* empty; when the call succeeds (on a URL that parses) it returns the input with
\* the value of every n parameter replaced by the result, no parameter added, the
\* others as they were.
C16_NcodeRewritesInPlace ==
    \A k \in NcodeCalls :
        LET c == url_calls[k]
        IN  /\ (~QsHas(c.arg, "n") \/ c.script = <<>>) => c.ret = Ok(c.arg)
            /\ (InvocationSucceeded(c, "n", NcodeEntry) /\ UrlParseOk(c.arg)) =>
                  /\ c.ret.pc = "ok"
                  /\ c.ret.text.abs = c.arg.abs /\ c.ret.text.path = c.arg.path
                  /\ Len(c.ret.text.pairs) = Len(c.arg.pairs)
                  /\ \A a \in 1..Len(c.arg.pairs) :
                        c.ret.text.pairs[a] =
                            IF c.arg.pairs[a].k = "n"
                            THEN KV("n", CallResult(c, "n", NcodeEntry).val)
                            ELSE c.arg.pairs[a]

(***************************************************************************)
(* Claims on parse_video_formats (SpecParse)                               *)
(***************************************************************************)
\* the fields the normalizer writes, and the ones it removes
DerivedFields == {"url", "hasVideo", "hasAudio", "container", "codecs", "videoCodec",
                  "audioCodec", "isLive", "isHLS", "isDashMPD"}
TokenFields == {"cipher", "signatureCipher"}

\* C17: every format parse_video_formats returns has a url and neither cipher nor
\* signatureCipher, and every field of its raw format that the normalizer neither
\* derives nor removes is there with the raw value.
C17_UrlPresentTokensGone ==
    pipe_pc = "parsed" =>
        /\ Len(formats) = Len(info)
        /\ \A k \in 1..Len(formats) :
              /\ HasKey(formats[k], "url")
              /\ \A t \in TokenFields : ~HasKey(formats[k], t)
              /\ \A key \in DOMAIN info[k] \ (DerivedFields \cup TokenFields) :
                    HasKey(formats[k], key) /\ formats[k][key] = info[k][key]

\* a format whose token went undeciphered is returned with the token's url, without
\* the token, and with its itag
C17_Witness ==
    /\ pipe_pc = "parsed"
    /\ pass = 1
    /\ \E k \in 1..Len(formats) :
          /\ HasKey(info[k], "signatureCipher")
          /\ HasKey(info[k], "itag")
          /\ formats[k]["itag"] = info[k]["itag"]
          /\ formats[k]["url"] = UrlSigned

TenBefore(text, k) == SubSeq(text, IF k > LookBack THEN k - LookBack ELSE 1, k - 1)

\* the lexical reading of a text, character k onward: lit is the open literal's
\* delimiter (NoLiteral outside), esc whether character k is escaped, depth the
\* open brackets of the kind; the result is the position where depth first
\* returns to zero, 0 when it never does
RECURSIVE ClosingPosition(_, _, _, _, _)
ClosingPosition(text, k, lit, esc, depth) ==
    IF k > Len(text) THEN 0
    ELSE LET c == text[k]
             opens == \/ c \in {DQ, SQ, BT}
                      \/ c = SL /\ StartPrefixMatches(TenBefore(text, k))
             d == IF c = OpenOf(text) THEN depth + 1
                  ELSE IF c = CloseOf(OpenOf(text)) THEN depth - 1
                  ELSE depth
         IN  IF ~esc /\ lit # NoLiteral /\ c = lit
             THEN ClosingPosition(text, k + 1, NoLiteral, FALSE, depth)
             ELSE IF ~esc /\ lit = NoLiteral /\ opens
             THEN ClosingPosition(text, k + 1, c, FALSE, depth)
             ELSE IF lit # NoLiteral
             THEN ClosingPosition(text, k + 1, lit, c = BS /\ ~esc, depth)
             ELSE IF d = 0 THEN k
             ELSE ClosingPosition(text, k + 1, lit, c = BS /\ ~esc, d)

ShortestClosed(text) == ClosingPosition(text, 1, NoLiteral, FALSE, 0)

\* C19: on a text starting with `{` or `[` in which the depth of the brackets
\* outside literals returns to zero, cut_after_js returns the prefix up to and
\* with the bracket where it first does, and nothing after it.
C19_ReturnsShortestClosedPrefix ==
    ( /\ cut_pc \in {"returned", "panic"}
      /\ OpenOf(mixed_json) # ""
      /\ ShortestClosed(mixed_json) > 0 )
    => /\ cut_pc = "returned"
       /\ return_string = Some(SubSeq(mixed_json, 1, ShortestClosed(mixed_json)))

\* the number of backslashes that end right before position k (1-based) of the text
RECURSIVE BackslashRun(_, _)
BackslashRun(text, k) ==
    IF k > 1 /\ text[k - 1] = BS THEN 1 + BackslashRun(text, k - 1) ELSE 0

\* C20: while a double-quote, single-quote or backtick literal is open, no
\* character changes the depth or ends the scan, and the literal is closed by
\* exactly its own delimiter after an even number of backslashes (none
\* included); after an odd number the delimiter leaves it open.
C20_QuoteLiteralsShieldBrackets ==
    [][ ( /\ cut_pc = "scan"
          /\ is_escaped_object \in {DQ, SQ, BT}
          /\ i < Len(mixed_json) )
        => /\ counter' = counter
           /\ cut_pc' = "scan"
           /\ return_string' = None
           /\ is_escaped_object' =
                  IF /\ mixed_json[i + 1] = is_escaped_object
                     /\ BackslashRun(mixed_json, i + 1) % 2 = 0
                  THEN NoLiteral
                  ELSE is_escaped_object ]_vars

\* a whole object returned whose string literal holds a closing bracket, an
\* escaped quote, and ends at a quote after two backslashes
C20_Witness ==
    /\ cut_pc = "returned"
    /\ return_string = Some(mixed_json)
    /\ \E p \in 2..Len(mixed_json) :
          /\ mixed_json[2] = mixed_json[p]
          /\ mixed_json[2] \in {DQ, SQ, BT}
          /\ BackslashRun(mixed_json, p) = 2
          /\ \E q \in 3..(p - 1) :
                /\ mixed_json[q] = mixed_json[2]
                /\ BackslashRun(mixed_json, q) = 1
          /\ \E q \in 3..(p - 1) : mixed_json[q] = "}"
          /\ p + 1 = Len(mixed_json)

(***************************************************************************)
(* Claims on between (SpecBetween)                                         *)
(***************************************************************************)
\* the numbers of characters of the haystack before which an occurrence of needle ends
EndsOf(hay, needle) ==
    {e \in Len(needle)..Len(hay) : SubSeq(hay, e - Len(needle) + 1, e) = needle}

\* the numbers of characters, from e on, after which an occurrence of needle starts
StartsFrom(hay, needle, e) ==
    {b \in e..(Len(hay) - Len(needle)) : SubSeq(hay, b + 1, b + Len(needle)) = needle}

Least(S) == CHOOSE x \in S : \A y \in S : x <= y

\* the text strictly between the first left and the first right after it
TextBetween(hay, l, r) ==
    IF EndsOf(hay, l) = {} THEN <<>>
    ELSE LET e == Least(EndsOf(hay, l))
         IN  IF StartsFrom(hay, r, e) = {} THEN <<>>
             ELSE SubSeq(hay, e + 1, Least(StartsFrom(hay, r, e)))

StartsWithBracket(text) == text # <<>> /\ text[1] \in {"{", "["}

\* C22: on a text whose first character is neither `{` nor `[`, the empty text
\* included, cut_after_js returns none.
C22_NoBracketReturnsNone ==
    (cut_pc \in {"scan", "returned", "panic"} /\ ~StartsWithBracket(mixed_json))
    => cut_pc = "returned" /\ return_string = None

\* a call returned on a text that holds a closed object after another first character
C22_Witness ==
    /\ cut_pc = "returned"
    /\ Len(mixed_json) >= 3
    /\ ~StartsWithBracket(mixed_json)
    /\ StartsWithBracket(Tail(mixed_json))
    /\ ShortestClosed(Tail(mixed_json)) > 0

(***************************************************************************)
(* Claims on the quality-label rank key (SpecRank)                         *)
(***************************************************************************)
\* the label without one trailing `p`
StripTrailingP(l) == IF l # <<>> /\ l[Len(l)] = "p" THEN SubSeq(l, 1, Len(l) - 1) ELSE l

\* the value of a text of decimal digits, 0 for any other text
RECURSIVE DecimalOrZero(_)
DecimalOrZero(l) ==
    IF l = <<>> \/ \E k \in 1..Len(l) : ~IsDigit(l[k]) THEN 0
    ELSE IF Len(l) = 1 THEN DigitValue(l[1])
    ELSE 10 * DecimalOrZero(SubSeq(l, 1, Len(l) - 1)) + DigitValue(l[Len(l)])

\* C23: the quality-label rank key is the integer read from the label with a
\* trailing `p` stripped, 0 when the label is absent or is no integer; a label
\* without a trailing `p` is read whole.
C23_RankKeyIsLabelNumber ==
    rank_pc = "returned"
    => rank_key = IF HasKey(rank_form, "qualityLabel")
                  THEN DecimalOrZero(StripTrailingP(rank_form["qualityLabel"]))
                  ELSE 0

(***************************************************************************)
(* Claims on escaped brackets and on `/` (SpecCut)                         *)
(***************************************************************************)
\* the character the iteration at i reads is a bracket of the detected kind
AtBracket == mixed_json[i + 1] \in {OpenOf(mixed_json), CloseOf(OpenOf(mixed_json))}

\* C24: outside every literal, a bracket of the detected kind that comes right
\* after an unescaped backslash (an odd number of backslashes) leaves the depth
\* counter as it is and does not end the scan.
C24_EscapedBracketNotCounted ==
    [][ ( /\ cut_pc = "scan"
          /\ is_escaped_object = NoLiteral
          /\ i < Len(mixed_json)
          /\ AtBracket
          /\ BackslashRun(mixed_json, i + 1) % 2 = 1 )
        => counter' = counter /\ cut_pc' = "scan" ]_vars

\* the look-back text is empty or ends with one of [ { : ; , and at most one
\* whitespace character after it
EndsWithPrefixPunct(w) ==
    \/ w = <<>>
    \/ Len(w) >= 1 /\ IsPrefixPunct(w[Len(w)])
    \/ Len(w) >= 2 /\ IsWhitespace(w[Len(w)]) /\ IsPrefixPunct(w[Len(w) - 1])

\* C25: a `/` read outside every literal opens a regex literal exactly when the
\* up to ten characters before it are empty or end with one of [ { : ; , and
\* at most one whitespace character; any other `/` is an ordinary character and
\* the scan goes on outside a literal. While the regex literal is open no
\* bracket is counted, and the next unescaped `/` closes it.
C25_SlashOpensRegexByLookBack ==
    [][ /\ ( /\ cut_pc = "scan"
             /\ is_escaped_object = NoLiteral
             /\ i < Len(mixed_json)
             /\ mixed_json[i + 1] = SL )
           => /\ cut_pc' = "scan"
              /\ counter' = counter
              /\ is_escaped_object' =
                     IF EndsWithPrefixPunct(TenBefore(mixed_json, i + 1)) THEN SL ELSE NoLiteral
        /\ ( /\ cut_pc = "scan"
             /\ is_escaped_object = SL
             /\ i < Len(mixed_json) )
           => /\ cut_pc' = "scan"
              /\ counter' = counter
              /\ is_escaped_object' =
                     IF mixed_json[i + 1] = SL /\ BackslashRun(mixed_json, i + 1) % 2 = 0
                     THEN NoLiteral ELSE SL ]_vars

(***************************************************************************)
(* Claims on ties in the selection (SpecSelect)                            *)
(***************************************************************************)
\* the positions of the candidates that agree with form on every rank key
TiedWith(form) == {k \in 1..Len(candidates) : RankKeys(candidates[k]) = RankKeys(form)}

\* C26: the format choose_format returns is an element of its formats
\* argument; among the candidates that agree with it on every rank key it is
\* the first in candidate order under Highest and the last under Lowest.
C26_TiesByCandidateOrder ==
    sel_pc = "chosen" =>
        /\ chosen.some
        /\ \E k \in 1..Len(sel_formats) : sel_formats[k] = chosen.val
        /\ TiedWith(chosen.val) # {}
        /\ options.quality = "Highest" =>
              chosen.val = candidates[CHOOSE k \in TiedWith(chosen.val) :
                                         \A m \in TiedWith(chosen.val) : k <= m]
        /\ options.quality = "Lowest" =>
              chosen.val = candidates[CHOOSE k \in TiedWith(chosen.val) :
                                         \A m \in TiedWith(chosen.val) : k >= m]

\* a choice made among candidates that hold two different formats tied with it
C26_Witness ==
    /\ sel_pc = "chosen"
    /\ \E k, m \in TiedWith(chosen.val) : candidates[k] # candidates[m]

====
